---- MODULE Spec2Model ----
(***************************************************************************)
(* Pose Landmarker Web (src/pose-landmarker-web/main.js).                  *)
(*                                                                         *)
(* The page is a single-threaded event loop.  Every action below is one    *)
(* task of that loop: a click or change handler up to its first await, the *)
(* continuation of an async function after an awaited promise settles      *)
(* (together with the synchronous code that follows it, calls included),   *)
(* or one requestAnimationFrame callback.                                  *)
(***************************************************************************)
EXTENDS Integers, Sequences, FiniteSets, Bags

(* ------------------------------ bounds -------------------------------- *)
\* startWebcam and onModelChange invocations in one run
MaxOps == 4
\* largest value of video.currentTime the camera reaches in one session
MaxTime == 1
\* the same two bounds for the longer runs of SpecDeep
MaxOpsDeep == 5
MaxTimeDeep == 1
\* landmark coordinates range over 0..MaxCoord
MaxOpsFps == 1
MaxTimeFps == 31
MaxOpsLive == 2
MaxTimeLive == 1
MaxCoord == 1

(* ----------------------------- constants ------------------------------ *)
FPS_WINDOW_SIZE == 30

Variants == {"lite", "full", "heavy"}

NULL == 0

VARIABLES
    landmarker,     \* NULL or the detector handle held
    lastVideoTime,  \* -1 or the last processed video.currentTime
    animationId,    \* NULL or the id the last requestAnimationFrame returned
    isStreaming,
    fpsTimestamps,  \* the rolling window of performance.now() readings
    btnDisabled,    \* enableBtn.disabled
    btnText,        \* enableBtn.textContent
    modelVariant,   \* modelSelect.value
    srcObject,      \* video.srcObject: NULL or the capture stream
    currentTime,    \* video.currentTime
    overlay,        \* what the canvas shows: "blank" or "pose"
    scheduled,      \* ids of the frame callbacks requested, not yet run or cancelled
    openHandles,    \* detector handles created and not closed
    liveStreams,    \* capture streams acquired whose tracks are not stopped
    startPc,        \* where the startWebcam invocation in progress is suspended
    inits,          \* the initializeLandmarker invocations that are suspended
    ops,            \* startWebcam and onModelChange invocations so far
    lastControl,    \* the last of startWebcam / stopWebcam to have been invoked
    detLast,        \* video.currentTime of the last detectForVideo call, -1 if none
    detRepeat,      \* whether that call had the timestamp of the call before it
    ev,             \* what the last task did
    args,           \* the landmarks a metric is called with
    result          \* what the metric returned

vars == <<landmarker, lastVideoTime, animationId, isStreaming, fpsTimestamps,
          btnDisabled, btnText, modelVariant, srcObject, currentTime, overlay,
          scheduled, openHandles, liveStreams, startPc, inits, ops,
          lastControl, detLast, detRepeat, ev, args, result>>

metricVars == <<args, result>>

sessionVars == <<landmarker, lastVideoTime, animationId, isStreaming,
                 fpsTimestamps, btnDisabled, btnText, modelVariant, srcObject,
                 currentTime, overlay, scheduled, openHandles, liveStreams,
                 startPc, inits, ops, lastControl, detLast, detRepeat, ev>>

(* --------------------------- model resolution ------------------------- *)
MODEL_LOCAL(variant) == "/models/pose_landmarker_" \o variant \o ".task"

\* the shipped fallback warns and returns the empty string
MODEL_FALLBACK(variant) == ""

ProbeOutcomes == {"ok", "notOk", "error"}

\* The body of tryLocalThenFallback.  probe: how fetch(localPath, HEAD)
\* settled; fallbackPath: what MODEL_FALLBACK returns when it is called.  The
\* result says whether the function threw, the path it returned and whether
\* MODEL_FALLBACK was called.
\* variant: MODEL_FALLBACK is called before the probe's answer is looked at
resolveFallbackFirst(variant, probe, fallbackPath) ==
    IF probe = "ok"
    THEN [threw |-> FALSE, path |-> MODEL_LOCAL(variant), fallback |-> TRUE]
    ELSE IF fallbackPath # ""
    THEN [threw |-> FALSE, path |-> fallbackPath, fallback |-> TRUE]
    ELSE [threw |-> TRUE, path |-> "", fallback |-> TRUE]

\* variant: the fallback path is returned without the test that it is non-empty
resolveUnchecked(variant, probe, fallbackPath) ==
    IF probe = "ok"
    THEN [threw |-> FALSE, path |-> MODEL_LOCAL(variant), fallback |-> FALSE]
    ELSE [threw |-> FALSE, path |-> fallbackPath, fallback |-> TRUE]

resolve(variant, probe, fallbackPath) ==
    LET localPath == MODEL_LOCAL(variant)
    IN  IF probe = "ok"
        THEN [threw |-> FALSE, path |-> localPath, fallback |-> FALSE]
        ELSE IF fallbackPath # ""
        THEN [threw |-> FALSE, path |-> fallbackPath, fallback |-> TRUE]
        ELSE [threw |-> TRUE, path |-> "", fallback |-> TRUE]

tryLocalThenFallback(variant, probe) ==
    resolve(variant, probe, MODEL_FALLBACK(variant))

NoRes == [variant |-> "", probe |-> "", threw |-> FALSE, path |-> "", fallback |-> FALSE]

(* ------------------------------ the session --------------------------- *)
\* The module-scoped state and the page objects the handlers touch.
Sess ==
    [landmarker |-> landmarker, lastVideoTime |-> lastVideoTime,
     animationId |-> animationId, isStreaming |-> isStreaming,
     fpsTimestamps |-> fpsTimestamps, btnDisabled |-> btnDisabled,
     btnText |-> btnText, srcObject |-> srcObject, currentTime |-> currentTime,
     overlay |-> overlay, scheduled |-> scheduled, openHandles |-> openHandles,
     liveStreams |-> liveStreams,
     detLast |-> detLast, detRepeat |-> detRepeat, detected |-> FALSE]

Apply(s) ==
    /\ landmarker' = s.landmarker
    /\ lastVideoTime' = s.lastVideoTime
    /\ animationId' = s.animationId
    /\ isStreaming' = s.isStreaming
    /\ fpsTimestamps' = s.fpsTimestamps
    /\ btnDisabled' = s.btnDisabled
    /\ btnText' = s.btnText
    /\ srcObject' = s.srcObject
    /\ currentTime' = s.currentTime
    /\ overlay' = s.overlay
    /\ scheduled' = s.scheduled
    /\ openHandles' = s.openHandles
    /\ liveStreams' = s.liveStreams
    /\ detLast' = s.detLast
    /\ detRepeat' = s.detRepeat

\* the smallest positive id not in use: ids are only ever compared with the
\* one kept in animationId (resp. landmarker), so reuse of a dead id is unobservable
Fresh(used) == CHOOSE n \in 1..(Cardinality(used) + 1) : n \notin used

requestAnimationFrame(s) ==
    LET id == Fresh(s.scheduled \cup {s.animationId})
    IN  [s EXCEPT !.scheduled = @ \cup {id}, !.animationId = id]

cancelAnimationFrame(s) ==
    [s EXCEPT !.scheduled = @ \ {s.animationId}]

\* variant: landmarker.close() without landmarker = null
closeLandmarkerKeepRef(s) ==
    IF s.landmarker # NULL
    THEN [s EXCEPT !.openHandles = @ \ {s.landmarker}]
    ELSE s

closeLandmarker(s) ==
    IF s.landmarker # NULL
    THEN [s EXCEPT !.openHandles = @ \ {s.landmarker}, !.landmarker = NULL]
    ELSE s

cancelAnimation(s) ==
    IF s.animationId # NULL
    THEN [cancelAnimationFrame(s) EXCEPT !.animationId = NULL]
    ELSE s

\* performance.now(): later than every reading taken before.  Readings are
\* only ever compared with those still in the window, so the reading is
\* counted from the newest of them.
performanceNow(s) ==
    IF s.fpsTimestamps = <<>> THEN 1
    ELSE s.fpsTimestamps[Len(s.fpsTimestamps)] + 1

\* variant: updateFPS dropping the newest reading of a full window, not the oldest
updateFPSDropNewest(s) ==
    LET pushed == Append(s.fpsTimestamps, performanceNow(s))
    IN  [s EXCEPT !.fpsTimestamps = IF Len(pushed) > FPS_WINDOW_SIZE
                                    THEN SubSeq(pushed, 1, FPS_WINDOW_SIZE)
                                    ELSE pushed]

updateFPS(s) ==
    LET pushed == Append(s.fpsTimestamps, performanceNow(s))
    IN  [s EXCEPT !.fpsTimestamps = IF Len(pushed) > FPS_WINDOW_SIZE
                                    THEN Tail(pushed) ELSE pushed]

\* landmarker.detectForVideo(video, performance.now()), then the drawing
detectForVideo(s, hasPose) ==
    [s EXCEPT !.detRepeat = (s.detLast = s.currentTime), !.detLast = s.currentTime,
              !.detected = TRUE,
              !.overlay = IF hasPose THEN "pose" ELSE "blank"]

\* variant: processFrame without its isStreaming test
processFrameUnguarded(s, hasPose) ==
    IF s.currentTime = s.lastVideoTime THEN requestAnimationFrame(s)
    ELSE LET s1 == [s EXCEPT !.lastVideoTime = s.currentTime, !.overlay = "blank"]
             s2 == IF s1.landmarker # NULL THEN detectForVideo(s1, hasPose) ELSE s1
         IN  requestAnimationFrame(updateFPS(s2))

\* variant: processFrame without its test for an unchanged video.currentTime
processFrameNoSkip(s, hasPose) ==
    IF ~s.isStreaming THEN s
    ELSE LET s1 == [s EXCEPT !.lastVideoTime = s.currentTime, !.overlay = "blank"]
             s2 == IF s1.landmarker # NULL THEN detectForVideo(s1, hasPose) ELSE s1
         IN  requestAnimationFrame(updateFPS(s2))

processFrame(s, hasPose) ==
    IF ~s.isStreaming THEN s
    ELSE IF s.currentTime = s.lastVideoTime THEN requestAnimationFrame(s)
    ELSE LET s1 == [s EXCEPT !.lastVideoTime = s.currentTime, !.overlay = "blank"]
             s2 == IF s1.landmarker # NULL THEN detectForVideo(s1, hasPose) ELSE s1
         IN  requestAnimationFrame(updateFPS(s2))

\* initializeLandmarker up to its first await
initPrologue(s) == cancelAnimation(closeLandmarker(s))

stopWebcam(s) ==
    LET s1 == [s EXCEPT !.isStreaming = FALSE]
        s2 == IF s1.srcObject # NULL
              THEN [s1 EXCEPT !.liveStreams = @ \ {s1.srcObject},
                              !.srcObject = NULL, !.currentTime = 0]
              ELSE s1
        s3 == cancelAnimation(closeLandmarker(s2))
    IN  [s3 EXCEPT !.overlay = "blank", !.btnText = "Enable Webcam",
                   !.fpsTimestamps = <<>>]

(* ------------------------------- events ------------------------------- *)
Ev(op) == [op |-> op, detect |-> FALSE, alert |-> FALSE, why |-> "", res |-> NoRes]

(* ------------------------------- metrics ------------------------------ *)
\* A landmark is absent (null or undefined) or a point of the frame.
Absent == [present |-> FALSE, x |-> 0, y |-> 0]

Landmarks ==
    {Absent} \cup {[present |-> TRUE, x |-> px, y |-> py] :
                     px \in 0..MaxCoord, py \in 0..MaxCoord}

\* The numbers the metrics return, kept exact: num is the integer n, sqrt the
\* irrational square root of n, acos the angle in degrees whose cosine has
\* the sign of n and the square |n| / d (in lowest terms).
Num(n) == [f |-> "num", n |-> n, d |-> 1]

Zero == Num(0)

RECURSIVE Gcd(_, _)
Gcd(m, n) == IF n = 0 THEN m ELSE Gcd(n, m % n)

IsSquare(n) == \E k \in 0..n : k * k = n

Math_sqrt(n) ==
    IF IsSquare(n) THEN Num(CHOOSE k \in 0..n : k * k = n)
    ELSE [f |-> "sqrt", n |-> n, d |-> 1]

\* the square of a number Math_sqrt returned
Square(v) == IF v.f = "num" THEN v.n * v.n ELSE v.n

\* acos(p / q) in degrees, for q = 2ab > 0 given by its square q2
AcosDegrees(p, q2) ==
    LET g == Gcd(p * p, q2)
    IN  IF p = 0 THEN Num(90)
        ELSE IF p * p = q2 THEN (IF p > 0 THEN Zero ELSE Num(180))
        ELSE [f |-> "acos", n |-> (IF p < 0 THEN -1 ELSE 1) * ((p * p) \div g),
              d |-> q2 \div g]

\* variant: the absence test with && for ||, so that a property of an absent
\* landmark is read
calculateDistanceBothAbsent(landmark1, landmark2) ==
    IF ~landmark1.present /\ ~landmark2.present THEN Zero
    ELSE IF ~landmark1.present \/ ~landmark2.present
    THEN [f |-> "TypeError", n |-> 0, d |-> 1]
    ELSE LET dx == landmark1.x - landmark2.x
             dy == landmark1.y - landmark2.y
         IN  Math_sqrt(dx * dx + dy * dy)

calculateDistance(landmark1, landmark2) ==
    IF ~landmark1.present \/ ~landmark2.present THEN Zero
    ELSE LET dx == landmark1.x - landmark2.x
             dy == landmark1.y - landmark2.y
         IN  Math_sqrt(dx * dx + dy * dy)

\* variant: calculateAngle without its test for a zero side, so that it divides by 0
calculateAngleNoZeroGuard(point1, point2, point3) ==
    IF ~point1.present \/ ~point2.present \/ ~point3.present THEN Zero
    ELSE LET a == calculateDistance(point1, point2)
             b == calculateDistance(point2, point3)
             c == calculateDistance(point1, point3)
         IN  IF a = Zero \/ b = Zero THEN [f |-> "NaN", n |-> 0, d |-> 1]
             ELSE AcosDegrees(Square(a) + Square(b) - Square(c),
                              4 * Square(a) * Square(b))

\* variant: the law of cosines with the denominator 2 * a * a
calculateAngleSkewed(point1, point2, point3) ==
    IF ~point1.present \/ ~point2.present \/ ~point3.present THEN Zero
    ELSE LET a == calculateDistance(point1, point2)
             b == calculateDistance(point2, point3)
             c == calculateDistance(point1, point3)
         IN  IF a = Zero \/ b = Zero THEN Zero
             ELSE AcosDegrees(Square(a) + Square(b) - Square(c),
                              4 * Square(a) * Square(a))

calculateAngle(point1, point2, point3) ==
    IF ~point1.present \/ ~point2.present \/ ~point3.present THEN Zero
    ELSE LET a == calculateDistance(point1, point2)
             b == calculateDistance(point2, point3)
             c == calculateDistance(point1, point3)
         IN  IF a = Zero \/ b = Zero THEN Zero
             ELSE AcosDegrees(Square(a) + Square(b) - Square(c),
                              4 * Square(a) * Square(b))

NoResult == [op |-> "none", value |-> Zero]

(* ------------------------------- actions ------------------------------ *)
SessionInit ==
    /\ landmarker = NULL
    /\ lastVideoTime = -1
    /\ animationId = NULL
    /\ isStreaming = FALSE
    /\ fpsTimestamps = <<>>
    /\ btnDisabled = FALSE
    /\ btnText = "Enable Webcam"
    /\ modelVariant = "lite"
    /\ srcObject = NULL
    /\ currentTime = 0
    /\ overlay = "blank"
    /\ scheduled = {}
    /\ openHandles = {}
    /\ liveStreams = {}
    /\ startPc = "idle"
    /\ inits = EmptyBag
    /\ ops = 0
    /\ lastControl = "none"
    /\ detLast = -1
    /\ detRepeat = FALSE
    /\ ev = Ev("load")

Init ==
    /\ SessionInit
    /\ args = <<Absent, Absent, Absent>>
    /\ result = NoResult

\* the camera delivers a new frame
VideoAdvance(maxTime) ==
    /\ UNCHANGED metricVars
    /\ srcObject # NULL
    /\ currentTime < maxTime
    /\ currentTime' = currentTime + 1
    /\ ev' = Ev("video")
    /\ UNCHANGED <<landmarker, lastVideoTime, animationId, isStreaming,
                   fpsTimestamps, btnDisabled, btnText, modelVariant, srcObject,
                   overlay, scheduled, openHandles, liveStreams, startPc,
                   inits, ops, lastControl, detLast, detRepeat>>

\* variant: startWebcam leaving the control enabled
ClickStartEnabled(maxOps) ==
    /\ UNCHANGED metricVars
    /\ ~btnDisabled
    /\ ~isStreaming
    /\ ops < maxOps
    /\ ops' = ops + 1
    /\ btnText' = "Starting..."
    /\ startPc' = "getUserMedia"
    /\ lastControl' = "start"
    /\ ev' = Ev("startWebcam")
    /\ UNCHANGED <<landmarker, lastVideoTime, animationId, isStreaming,
                   fpsTimestamps, btnDisabled, modelVariant, srcObject,
                   currentTime, overlay, scheduled, openHandles, liveStreams,
                   inits, detLast, detRepeat>>

\* click on the control while no session is active: startWebcam to its first await
ClickStart(maxOps) ==
    /\ UNCHANGED metricVars
    /\ ~btnDisabled
    /\ ~isStreaming
    /\ ops < maxOps
    /\ ops' = ops + 1
    /\ btnDisabled' = TRUE
    /\ btnText' = "Starting..."
    /\ startPc' = "getUserMedia"
    /\ lastControl' = "start"
    /\ ev' = Ev("startWebcam")
    /\ UNCHANGED <<landmarker, lastVideoTime, animationId, isStreaming,
                   fpsTimestamps, modelVariant, srcObject, currentTime, overlay,
                   scheduled, openHandles, liveStreams, inits, detLast,
                   detRepeat>>

\* click on the control while a session is active: stopWebcam
ClickStop ==
    /\ UNCHANGED metricVars
    /\ ~btnDisabled
    /\ isStreaming
    /\ Apply(stopWebcam(Sess))
    /\ lastControl' = "stop"
    /\ ev' = Ev("stopWebcam")
    /\ UNCHANGED <<modelVariant, startPc, inits, ops>>

\* navigator.mediaDevices.getUserMedia resolves: the stream is attached to the video
GetUserMediaResolved ==
    /\ UNCHANGED metricVars
    /\ startPc = "getUserMedia"
    /\ LET stream == Fresh(liveStreams)
       IN  /\ liveStreams' = liveStreams \cup {stream}
           /\ srcObject' = stream
    /\ currentTime' = 0
    /\ startPc' = "metadata"
    /\ ev' = Ev("getUserMedia")
    /\ UNCHANGED <<landmarker, lastVideoTime, animationId, isStreaming,
                   fpsTimestamps, btnDisabled, btnText, modelVariant, overlay,
                   scheduled, openHandles, inits, ops, lastControl,
                   detLast, detRepeat>>

\* getUserMedia rejects: the catch block of startWebcam
GetUserMediaRejected ==
    /\ UNCHANGED metricVars
    /\ startPc = "getUserMedia"
    /\ btnDisabled' = FALSE
    /\ btnText' = "Enable Webcam"
    /\ startPc' = "idle"
    /\ ev' = [Ev("captureFailed") EXCEPT !.alert = TRUE]
    /\ UNCHANGED <<landmarker, lastVideoTime, animationId, isStreaming,
                   fpsTimestamps, modelVariant, srcObject, currentTime, overlay,
                   scheduled, openHandles, liveStreams, inits, ops,
                   lastControl, detLast, detRepeat>>

\* an initializeLandmarker invocation suspended at an await: who awaits it,
\* the await it is at, its argument and the path tryLocalThenFallback gave it
NewInit(owner, variant) ==
    [owner |-> owner, phase |-> "vision", variant |-> variant, path |-> ""]

Suspend(r) == inits (+) SetToBag({r})

Resume(r) == inits (-) SetToBag({r})

\* video.onloadedmetadata fires; startWebcam resumes and calls
\* initializeLandmarker(modelSelect.value), which runs to its first await
LoadedMetadata ==
    /\ UNCHANGED metricVars
    /\ startPc = "metadata"
    /\ Apply(initPrologue(Sess))
    /\ inits' = Suspend(NewInit("start", modelVariant))
    /\ startPc' = "init"
    /\ ev' = Ev("loadedmetadata")
    /\ UNCHANGED <<modelVariant, ops, lastControl>>

\* variant: startWebcam returning from its !success branch with the control
\* still disabled
startAfterInitStuck(s, success, hasPose) ==
    LET s1 == [s EXCEPT !.isStreaming = TRUE, !.btnText = "Stop Webcam"]
    IN  IF ~success THEN s1
        ELSE processFrame([s1 EXCEPT !.btnDisabled = FALSE], hasPose)

\* startWebcam after initializeLandmarker returned
startAfterInit(s, success, hasPose) ==
    LET s1 == [s EXCEPT !.isStreaming = TRUE, !.btnText = "Stop Webcam",
                        !.btnDisabled = FALSE]
    IN  IF ~success THEN s1 ELSE processFrame(s1, hasPose)

\* onModelChange after initializeLandmarker returned
modelChangeAfterInit(s, success, hasPose) ==
    IF success /\ s.isStreaming THEN processFrame(s, hasPose) ELSE s

\* initializeLandmarker returns `success` to the caller that awaits it, which
\* runs on.  why: the await that failed, "ok" when none did; res: what
\* tryLocalThenFallback did in this task, if it ran
Return(r, s, success, why, res) ==
    \E hasPose \in BOOLEAN :
        LET s1 == IF r.owner = "start"
                  THEN startAfterInit(s, success, hasPose)
                  ELSE modelChangeAfterInit(s, success, hasPose)
        IN  /\ Apply(s1)
            /\ inits' = Resume(r)
            /\ startPc' = IF r.owner = "start" THEN "idle" ELSE startPc
            /\ ev' = [op |-> r.owner, detect |-> s1.detected, alert |-> FALSE,
                      why |-> IF success THEN "ok" ELSE why, res |-> res]
            /\ UNCHANGED <<modelVariant, ops, lastControl>>

\* FilesetResolver.forVisionTasks resolves; tryLocalThenFallback issues its probe
VisionResolved(r) ==
    /\ UNCHANGED metricVars
    /\ r.phase = "vision"
    /\ inits' = Resume(r) (+) SetToBag({[r EXCEPT !.phase = "probe"]})
    /\ ev' = Ev("vision")
    /\ UNCHANGED <<landmarker, lastVideoTime, animationId, isStreaming,
                   fpsTimestamps, btnDisabled, btnText, modelVariant, srcObject,
                   currentTime, overlay, scheduled, openHandles, liveStreams,
                   startPc, ops, lastControl, detLast, detRepeat>>

VisionRejected(r) ==
    /\ UNCHANGED metricVars
    /\ r.phase = "vision"
    /\ Return(r, Sess, FALSE, "vision", NoRes)

\* the probe of the local asset settles; tryLocalThenFallback returns or throws
ProbeSettled(r, probe) ==
    /\ UNCHANGED metricVars
    /\ r.phase = "probe"
    /\ LET got == tryLocalThenFallback(r.variant, probe)
           res == [variant |-> r.variant, probe |-> probe, threw |-> got.threw,
                   path |-> got.path, fallback |-> got.fallback]
       IN  IF got.threw
           THEN Return(r, Sess, FALSE, "resolve", res)
           ELSE /\ inits' = Resume(r) (+)
                        SetToBag({[r EXCEPT !.phase = "create", !.path = got.path]})
                /\ ev' = [Ev("resolved") EXCEPT !.res = res]
                /\ UNCHANGED <<landmarker, lastVideoTime, animationId,
                               isStreaming, fpsTimestamps, btnDisabled, btnText,
                               modelVariant, srcObject, currentTime, overlay,
                               scheduled, openHandles, liveStreams,
                               startPc, ops, lastControl, detLast, detRepeat>>

\* landmarker = await PoseLandmarker.createFromOptions(...)
assignLandmarker(s) ==
    LET h == Fresh(s.openHandles \cup {s.landmarker})
    IN  [s EXCEPT !.openHandles = @ \cup {h}, !.landmarker = h]

CreateResolved(r) ==
    /\ UNCHANGED metricVars
    /\ r.phase = "create"
    /\ Return(r, assignLandmarker(Sess), TRUE, "ok", NoRes)

CreateRejected(r) ==
    /\ UNCHANGED metricVars
    /\ r.phase = "create"
    /\ Return(r, Sess, FALSE, "create", NoRes)

\* variant: onModelChange without its isStreaming test
ModelChangeUnguarded(maxOps, v) ==
    /\ UNCHANGED metricVars
    /\ v # modelVariant
    /\ ops < maxOps
    /\ ops' = ops + 1
    /\ modelVariant' = v
    /\ ev' = Ev("onModelChange")
    /\ Apply(initPrologue(Sess))
    /\ inits' = Suspend(NewInit("switch", v))
    /\ UNCHANGED <<startPc, lastControl>>

\* the user picks another variant; the change listener runs onModelChange
ModelChange(maxOps, v) ==
    /\ UNCHANGED metricVars
    /\ v # modelVariant
    /\ ops < maxOps
    /\ ops' = ops + 1
    /\ modelVariant' = v
    /\ ev' = Ev("onModelChange")
    /\ IF ~isStreaming
       THEN UNCHANGED <<landmarker, lastVideoTime, animationId, isStreaming,
                        fpsTimestamps, btnDisabled, btnText, srcObject,
                        currentTime, overlay, scheduled, openHandles,
                        liveStreams, startPc, inits, lastControl,
                        detLast, detRepeat>>
       ELSE /\ Apply(initPrologue(Sess))
            /\ inits' = Suspend(NewInit("switch", v))
            /\ UNCHANGED <<startPc, lastControl>>

\* a requested animation frame callback runs processFrame
FrameCallback(id) ==
    /\ UNCHANGED metricVars
    /\ id \in scheduled
    /\ \E hasPose \in BOOLEAN :
        LET s1 == processFrame([Sess EXCEPT !.scheduled = @ \ {id}], hasPose)
        IN  /\ Apply(s1)
            /\ ev' = [Ev("frame") EXCEPT !.detect = s1.detected]
    /\ UNCHANGED <<modelVariant, startPc, inits, ops, lastControl>>

Next ==
    \/ VideoAdvance(MaxTime)
    \/ ClickStart(MaxOps)
    \/ ClickStop
    \/ GetUserMediaResolved
    \/ GetUserMediaRejected
    \/ LoadedMetadata
    \/ \E r \in BagToSet(inits) : VisionResolved(r)
    \/ \E r \in BagToSet(inits) : VisionRejected(r)
    \/ \E r \in BagToSet(inits) : \E probe \in ProbeOutcomes : ProbeSettled(r, probe)
    \/ \E r \in BagToSet(inits) : CreateResolved(r)
    \/ \E r \in BagToSet(inits) : CreateRejected(r)
    \/ \E v \in Variants : ModelChange(MaxOps, v)
    \/ \E id \in scheduled : FrameCallback(id)

Spec == Init /\ [][Next]_vars

\* the same program, run for longer
NextDeep ==
    \/ VideoAdvance(MaxTimeDeep)
    \/ ClickStart(MaxOpsDeep)
    \/ ClickStop
    \/ GetUserMediaResolved
    \/ GetUserMediaRejected
    \/ LoadedMetadata
    \/ \E r \in BagToSet(inits) : VisionResolved(r)
    \/ \E r \in BagToSet(inits) : VisionRejected(r)
    \/ \E r \in BagToSet(inits) : \E probe \in ProbeOutcomes : ProbeSettled(r, probe)
    \/ \E r \in BagToSet(inits) : CreateResolved(r)
    \/ \E r \in BagToSet(inits) : CreateRejected(r)
    \/ \E v \in Variants : ModelChange(MaxOpsDeep, v)
    \/ \E id \in scheduled : FrameCallback(id)

SpecDeep == Init /\ [][NextDeep]_vars

\* the same program, one session long enough to fill the FPS window
NextFps ==
    \/ VideoAdvance(MaxTimeFps)
    \/ ClickStart(MaxOpsFps)
    \/ ClickStop
    \/ GetUserMediaResolved
    \/ GetUserMediaRejected
    \/ LoadedMetadata
    \/ \E r \in BagToSet(inits) : VisionResolved(r)
    \/ \E r \in BagToSet(inits) : VisionRejected(r)
    \/ \E r \in BagToSet(inits) : \E probe \in ProbeOutcomes : ProbeSettled(r, probe)
    \/ \E r \in BagToSet(inits) : CreateResolved(r)
    \/ \E r \in BagToSet(inits) : CreateRejected(r)
    \/ \E v \in Variants : ModelChange(MaxOpsFps, v)
    \/ \E id \in scheduled : FrameCallback(id)

SpecFps == Init /\ [][NextFps]_vars

\* the same program, with every call startWebcam awaits settling in the end
NextLive ==
    \/ VideoAdvance(MaxTimeLive)
    \/ ClickStart(MaxOpsLive)
    \/ ClickStop
    \/ GetUserMediaResolved
    \/ GetUserMediaRejected
    \/ LoadedMetadata
    \/ \E r \in BagToSet(inits) : VisionResolved(r)
    \/ \E r \in BagToSet(inits) : VisionRejected(r)
    \/ \E r \in BagToSet(inits) : \E probe \in ProbeOutcomes : ProbeSettled(r, probe)
    \/ \E r \in BagToSet(inits) : CreateResolved(r)
    \/ \E r \in BagToSet(inits) : CreateRejected(r)
    \/ \E v \in Variants : ModelChange(MaxOpsLive, v)
    \/ \E id \in scheduled : FrameCallback(id)

\* the promise startWebcam is suspended on settles: getUserMedia, the
\* loadedmetadata event, or the next await of its initializeLandmarker call
StartAwaitSettles ==
    \/ GetUserMediaResolved
    \/ GetUserMediaRejected
    \/ LoadedMetadata
    \/ \E r \in BagToSet(inits) :
            /\ r.owner = "start"
            /\ \/ VisionResolved(r)
               \/ VisionRejected(r)
               \/ \E probe \in ProbeOutcomes : ProbeSettled(r, probe)
               \/ CreateResolved(r)
               \/ CreateRejected(r)

SpecLive == Init /\ [][NextLive]_vars /\ WF_vars(StartAwaitSettles)

\* the metrics, called on every triple of landmarks
MetricsInit ==
    /\ SessionInit
    /\ args \in Landmarks \X Landmarks \X Landmarks
    /\ result = NoResult

CallDistance ==
    /\ UNCHANGED sessionVars
    /\ result = NoResult
    /\ result' = [op |-> "distance", value |-> calculateDistance(args[1], args[2])]
    /\ UNCHANGED args

CallAngle ==
    /\ UNCHANGED sessionVars
    /\ result = NoResult
    /\ result' = [op |-> "angle", value |-> calculateAngle(args[1], args[2], args[3])]
    /\ UNCHANGED args

MetricsNext == CallDistance \/ CallAngle

SpecMetrics == MetricsInit /\ [][MetricsNext]_vars

TypeOK ==
    /\ landmarker \in 0..MaxOpsDeep
    /\ lastVideoTime \in -1..MaxTime
    /\ isStreaming \in BOOLEAN
    /\ Len(fpsTimestamps) <= FPS_WINDOW_SIZE
    /\ Cardinality(liveStreams) <= 1

(* ------------------------------- claims ------------------------------- *)
AfterStop == lastControl = "stop"

LocalPathOf(variant) ==
    CASE variant = "lite" -> "/models/pose_landmarker_lite.task"
      [] variant = "full" -> "/models/pose_landmarker_full.task"
      [] variant = "heavy" -> "/models/pose_landmarker_heavy.task"
      [] OTHER -> "?"

\* C1: the detector is never invoked twice in direct succession for the same
\* frame timestamp (video.currentTime), across any sequence of frame ticks,
\* starts, stops and model switches.
C1_NoRepeatedTimestamp == ~detRepeat

\* C2: the frame loop runs only while isStreaming is set.  No task that ends
\* with isStreaming false has called detectForVideo, and a frame callback that
\* fires while isStreaming is false changes nothing and requests no new frame.
C2_LoopOnlyWhileStreaming ==
    [][~isStreaming' =>
        /\ ~ev'.detect
        /\ ev'.op = "frame" =>
            /\ \E id \in scheduled : scheduled' = scheduled \ {id}
            /\ UNCHANGED <<landmarker, lastVideoTime, animationId, isStreaming,
                           fpsTimestamps, btnDisabled, btnText, modelVariant,
                           srcObject, currentTime, overlay, openHandles,
                           liveStreams, startPc, inits, detLast, detRepeat>>]_vars

\* C2 witness: after stopWebcam, a frame callback that was still pending has fired.
C2_Witness == AfterStop /\ ev.op = "frame"

\* C3: after stopWebcam completes and before the next start begins, the capture
\* stream is stopped and no open detector handle is held.
C3_StopReleasesHandles ==
    AfterStop =>
        /\ srcObject = NULL
        /\ liveStreams = {}
        /\ landmarker = NULL
        /\ openHandles = {}

\* C4: at most one frame callback is scheduled at any time.
C4_OneCycleInFlight == Cardinality(scheduled) <= 1

\* C5: whenever isStreaming is true and no initialization is in progress, a
\* frame cycle is scheduled (also when the detector failed to initialize).
C5_LoopRunsWhileStreaming ==
    (isStreaming /\ inits = EmptyBag) => scheduled # {}

\* C6: when the capture request fails, startWebcam alerts the user, attempts no
\* detector initialization, leaves isStreaming false with no frame cycle
\* scheduled, re-enables the control and leaves no active detector handle.
C6_CaptureFailure ==
    ev.op = "captureFailed" =>
        /\ ev.alert
        /\ \A r \in BagToSet(inits) : r.owner # "start"
        /\ ~isStreaming
        /\ scheduled = {}
        /\ ~btnDisabled
        /\ landmarker = NULL

\* C7: when the local presence probe succeeds, model resolution returns the
\* local path of the variant and the remote fallback is not consulted.
C7_LocalFirst ==
    ev.res.probe = "ok" =>
        /\ ~ev.res.threw
        /\ ev.res.path = LocalPathOf(ev.res.variant)
        /\ ~ev.res.fallback
        /\ ev.op = "resolved"

\* C7 witness: a resolution whose probe succeeded, for each variant.
C7_Witness == ev.res.probe = "ok" /\ ev.res.variant = "heavy"

\* a remote location an operator might make MODEL_FALLBACK return
RemoteConfigured == "https://models.example/pose_landmarker.task"

\* C8: with the local asset absent (probe not OK, or the probe itself failed)
\* and the shipped fallback, which is empty for every variant, resolution
\* consults the fallback and raises; an empty path is never returned.  Were
\* a remote location configured, the same code would return it.
C8_AbsentRaises ==
    /\ ev.res.probe \in {"notOk", "error"} =>
        /\ ev.res.threw
        /\ ev.res.fallback
        /\ ev.why = "resolve"
    /\ (ev.res # NoRes /\ ~ev.res.threw) => ev.res.path # ""
    /\ \A v \in Variants : MODEL_FALLBACK(v) = ""
    /\ \A v \in Variants : \A probe \in {"notOk", "error"} :
            resolve(v, probe, RemoteConfigured) =
                [threw |-> FALSE, path |-> RemoteConfigured, fallback |-> TRUE]

\* C8 witness: a resolution whose probe itself failed has raised.
C8_Witness == ev.res.probe = "error" /\ ev.res.threw

\* C9: when initializeLandmarker fails during a start, the session still
\* becomes active, with no detector handle and no failure alert.
C9_InitFailureNonFatal ==
    (ev.op = "start" /\ ev.why # "ok") =>
        /\ isStreaming
        /\ ~btnDisabled
        /\ btnText = "Stop Webcam"
        /\ ~ev.alert
        /\ landmarker = NULL

\* C10: calculateDistance returns 0 if either landmark is absent and
\* calculateAngle returns 0 if any of its three landmarks is absent.
C10_AbsentGivesZero ==
    /\ (result.op = "distance" /\ (args[1] = Absent \/ args[2] = Absent))
            => result.value = Zero
    /\ (result.op = "angle" /\ (\E i \in 1..3 : args[i] = Absent))
            => result.value = Zero

\* C10 witness: calculateAngle has returned for a triple whose vertex is absent.
C10_Witness ==
    /\ result.op = "angle"
    /\ args[2] = Absent
    /\ args[1] # Absent
    /\ args[3] # Absent

AllPresent == \A i \in 1..3 : args[i].present

\* C11: calculateAngle(a, b, c) returns 0 for every triple of present landmarks
\* in which a coincides with b, b with c, or a with c.
C11_DegenerateGivesZero ==
    (/\ result.op = "angle"
     /\ AllPresent
     /\ \/ args[1] = args[2]
        \/ args[2] = args[3]
        \/ args[1] = args[3])
        => result.value = Zero

\* C11 witness: calculateAngle has returned for a triple whose endpoints
\* coincide and differ from the vertex.
C11_Witness ==
    /\ result.op = "angle"
    /\ AllPresent
    /\ args[1] = args[3]
    /\ args[1] # args[2]

\* C12: calculateDistance(a, b) equals calculateDistance(b, a) and
\* calculateAngle(a, b, c) equals calculateAngle(c, b, a), absent landmarks
\* included.
C12_EndpointSymmetry ==
    /\ result.op = "distance" =>
            result.value = calculateDistance(args[2], args[1])
    /\ result.op = "angle" =>
            result.value = calculateAngle(args[3], args[2], args[1])

\* C12 witness: calculateAngle has returned a non-zero angle for a triple
\* whose sides at the vertex differ in length.
C12_Witness ==
    /\ result.op = "angle"
    /\ AllPresent
    /\ result.value # Zero
    /\ calculateDistance(args[1], args[2]) # calculateDistance(args[2], args[3])

Increasing(w) == \A i \in 1..(Len(w) - 1) : w[i] < w[i + 1]

\* what one reading does to the window: it goes to the end, and the first
\* entry leaves when the window already held FPS_WINDOW_SIZE entries
Arrived(old, new) ==
    /\ new # <<>>
    /\ IF Len(old) < FPS_WINDOW_SIZE
       THEN SubSeq(new, 1, Len(new) - 1) = old
       ELSE SubSeq(new, 1, Len(new) - 1) = Tail(old)

\* C13: the FPS window holds at most 30 readings in arrival order and is empty
\* after stop; every processed frame adds one reading at the end, which evicts
\* the oldest entry when 30 are already held, and the only other change to
\* the window is the clearing by stop.
C13_RollingWindow ==
    /\ [](/\ Len(fpsTimestamps) <= FPS_WINDOW_SIZE
          /\ Increasing(fpsTimestamps)
          /\ AfterStop => fpsTimestamps = <<>>)
    /\ [][(lastVideoTime' # lastVideoTime =>
                Arrived(fpsTimestamps, fpsTimestamps'))
           /\ (fpsTimestamps' # fpsTimestamps =>
                \/ ev'.op = "stopWebcam" /\ fpsTimestamps' = <<>>
                \/ Arrived(fpsTimestamps, fpsTimestamps'))]_vars

\* C13 witness: a frame has been processed with 30 readings already in the
\* window, and the first reading taken is no longer held.
C13_Witness ==
    /\ ev.op = "frame"
    /\ Len(fpsTimestamps) = FPS_WINDOW_SIZE
    /\ fpsTimestamps[1] > 1

\* C14: an animation frame callback that finds video.currentTime equal to
\* lastVideoTime leaves lastVideoTime, the detector handle, the streaming flag,
\* the overlay and the FPS window unchanged and invokes no detection; while
\* streaming, all it does is request the next animation frame.
C14_DuplicateTickIsNoOp ==
    [][(ev'.op = "frame" /\ currentTime = lastVideoTime) =>
            /\ UNCHANGED <<lastVideoTime, landmarker, isStreaming, overlay,
                           fpsTimestamps, detLast, openHandles, currentTime>>
            /\ ~ev'.detect
            /\ isStreaming =>
                    /\ animationId' \in scheduled'
                    /\ Cardinality(scheduled') = Cardinality(scheduled)]_vars

\* C14 witness: a frame callback has run while streaming with a detector
\* loaded, found the timestamp unchanged and invoked no detection.
C14_Witness ==
    /\ ev.op = "frame"
    /\ isStreaming
    /\ landmarker # NULL
    /\ currentTime = lastVideoTime
    /\ ~ev.detect

\* C15: at most one detector handle is open at any time, and it is the one
\* landmarker refers to: a handle that has been replaced is closed.
C15_SingleOpenHandle ==
    /\ Cardinality(openHandles) <= 1
    /\ openHandles \subseteq {landmarker}

\* C16: the handle landmarker refers to is never a closed one, so detection
\* is only ever invoked on an open handle, and every step that closes a handle
\* leaves landmarker null.
C16_NoDetectionOnClosedHandle ==
    /\ [](landmarker # NULL => landmarker \in openHandles)
    /\ [][/\ (openHandles \ openHandles') # {} => landmarker' = NULL
          /\ ev'.detect => landmarker' \in openHandles']_vars

\* C16 witness: a model switch has closed the previous handle, created a new
\* one and invoked detection on it.
C16_Witness ==
    /\ ev.op = "switch"
    /\ ev.detect
    /\ landmarker \in openHandles

\* C17: onModelChange while isStreaming is false starts no initialization,
\* closes no handle, schedules and cancels no frame callback and leaves
\* isStreaming, lastVideoTime and landmarker unchanged.
C17_ModelChangeWhileStoppedIsNoOp ==
    [][(ev'.op = "onModelChange" /\ ~isStreaming) =>
            UNCHANGED <<inits, openHandles, scheduled, animationId, isStreaming,
                        lastVideoTime, landmarker, fpsTimestamps, srcObject,
                        liveStreams, overlay, btnDisabled, btnText,
                        startPc>>]_vars

\* C17 witness: the model was changed after a session had been stopped.
C17_Witness ==
    /\ ev.op = "onModelChange"
    /\ ~isStreaming
    /\ AfterStop

StartInFlight == startPc # "idle"

\* C18: while a startWebcam invocation is in flight the control is disabled;
\* startWebcam is only entered, and stopWebcam only runs, when no start is in
\* flight; isStreaming is true only while the stream the latest start
\* acquired is attached and live.
C18_StartNotReentrant ==
    /\ [](/\ StartInFlight => btnDisabled
          /\ isStreaming =>
                /\ srcObject # NULL
                /\ liveStreams = {srcObject}
                /\ lastControl = "start")
    /\ [][/\ ev'.op = "startWebcam" => ~StartInFlight
          /\ ev'.op = "stopWebcam" => ~StartInFlight /\ ~StartInFlight']_vars

\* C18 witness: a start is awaiting initializeLandmarker with the stream
\* already attached, the control disabled and the session not yet streaming.
C18_Witness ==
    /\ startPc = "init"
    /\ btnDisabled
    /\ srcObject # NULL
    /\ ~isStreaming

\* C19: provided every call startWebcam awaits settles in the end, every
\* startWebcam invocation finishes, and when it has the control is enabled.
C19_StartFinishesEnabled ==
    /\ StartInFlight ~> (~StartInFlight /\ ~btnDisabled)
    /\ [](~StartInFlight /\ ev.op \in {"start", "captureFailed"} => ~btnDisabled)

\* C19 witness: a start has finished through the failure branch of
\* initializeLandmarker and the control is enabled.
C19_Witness ==
    /\ ev.op = "start"
    /\ ev.why # "ok"
    /\ ~StartInFlight
    /\ ~btnDisabled

====
